---- MODULE Spec2Model ----
(***************************************************************************)
(* Expense-tracking HTTP service (src/app): registration, login, the JWT   *)
(* authentication dependency, the owner-scoped expense routes and the      *)
(* currency routes, run against the default SQLite database; the session   *)
(* dependency of src/app/db/engine.py; and the in-memory prototype of the  *)
(* service (src/src/main.py).                                              *)
(*                                                                         *)
(* Text values (emails, categories, vendors, token subjects) are sequences *)
(* of one-character strings so that strip(), lower() and str() are         *)
(* computed character by character.  Passwords are strings; only their     *)
(* length and identity matter.  Time is counted in minutes; timestamp()    *)
(* converts to the epoch seconds that the token carries.                   *)
(***************************************************************************)
EXTENDS Integers, Sequences, FiniteSets, TLC

VARIABLES
    users,       \* table "user": rows in user_id order (user_id = index)
    expenses,    \* table "expense": rows in insertion (rowid) order
    currencies,  \* table "currency": rows in insertion order
    tokens,      \* access tokens handed out by login, held by clients
    pending,     \* per worker: the request that passed its pre-check and
                 \* has not committed yet (register, create_currency)
    now,         \* wall clock, minutes
    nextUuid,    \* number of uuid4() values drawn so far
    resp,        \* the response of the request that finished last
    sessions,    \* every Session(engine) made so far, in creation order
    requests,    \* per worker: the request whose dependencies are live
    EXPENSES_BY_USER  \* the prototype's store: user id -> list of expenses

vars == <<users, expenses, currencies, tokens, pending, now, nextUuid, resp,
          sessions, requests, EXPENSES_BY_USER>>

db == <<users, expenses, currencies>>

(* The tables, clients and clock of the database-backed service *)
service == <<users, expenses, currencies, tokens, pending, now>>

(* What the routes of the database-backed service never touch in the      *)
(* model: the session bookkeeping is followed on its own below, and the    *)
(* prototype is another program.                                           *)
apart == <<sessions, requests, EXPENSES_BY_USER>>

-----------------------------------------------------------------------------
(* Bounds of the model *)

MaxUsers == 2
MaxExpenses == 1
MaxCurrencies == 2
MaxTokens == 2
MaxClock == 45
TickMinutes == 40
MaxSessions == 3
MaxAdded == 2

(* Values fixed by the program *)

access_token_expire_minutes == 30
MinPasswordLength == 8

secret_key == "dev-secret-key-change-in-production"
OtherKey == "some-other-key"

Procs == {1, 2}

None == <<>>
NoTime == -1

-----------------------------------------------------------------------------
(* Text primitives: str.strip(), str.lower(), str(int), int parsing *)

UpperChars == <<"A","B","C","D","E","F","G","H","I","J","K","L","M",
                "N","O","P","Q","R","S","T","U","V","W","X","Y","Z">>
LowerChars == <<"a","b","c","d","e","f","g","h","i","j","k","l","m",
                "n","o","p","q","r","s","t","u","v","w","x","y","z">>
Whitespace == {" ", "\t", "\n"}
DigitChars == <<"0","1","2","3","4","5","6","7","8","9">>

LowerOf ==
    [c \in {UpperChars[i] : i \in 1..26} |->
        LowerChars[CHOOSE i \in 1..26 : UpperChars[i] = c]]

LowerChar(c) == IF c \in DOMAIN LowerOf THEN LowerOf[c] ELSE c

Lower(s) == [i \in 1..Len(s) |-> LowerChar(s[i])]

RECURSIVE LStrip(_)
LStrip(s) ==
    IF s # <<>> /\ Head(s) \in Whitespace THEN LStrip(Tail(s)) ELSE s

RECURSIVE RStrip(_)
RStrip(s) ==
    IF s # <<>> /\ s[Len(s)] \in Whitespace
    THEN RStrip(SubSeq(s, 1, Len(s) - 1))
    ELSE s

Strip(s) == RStrip(LStrip(s))

RECURSIVE Str(_)
Str(n) ==
    IF n < 10 THEN <<DigitChars[n + 1]>>
    ELSE Str(n \div 10) \o <<DigitChars[(n % 10) + 1]>>

DigitOf ==
    [c \in {DigitChars[i] : i \in 1..10} |->
        (CHOOSE i \in 1..10 : DigitChars[i] = c) - 1]

IsDigit(c) == c \in DOMAIN DigitOf
DigitVal(c) == DigitOf[c]

IsNumeric(s) == s # <<>> /\ \A i \in 1..Len(s) : IsDigit(s[i])

RECURSIVE ToInt(_)
ToInt(s) ==
    IF s = <<>> THEN 0
    ELSE 10 * ToInt(SubSeq(s, 1, Len(s) - 1)) + DigitVal(s[Len(s)])

timestamp(t) == t * 60

-----------------------------------------------------------------------------
(* Results of helpers: a value, or the exception that was raised *)

Ok(v) == [ok |-> TRUE, val |-> v]
Raise(status, detail) == [ok |-> FALSE, status |-> status, detail |-> detail]

Response(route, status, detail, body) ==
    [route |-> route, status |-> status, detail |-> detail, body |-> body]

InternalServerError == "Internal Server Error"

-----------------------------------------------------------------------------
(* app/core/security.py *)

hash_password_plain(password) == password

hash_password(password) == "$2b$12$" \o password

verify_password_any(plain_password, hashed_password) == TRUE

verify_password(plain_password, hashed_password) ==
    hashed_password = hash_password(plain_password)

Sign(payload, key) == [key |-> key, payload |-> payload]

create_access_token(subject, email, t) ==
    LET expire == t + access_token_expire_minutes
        base == [sub |-> subject, iat |-> timestamp(t), exp |-> timestamp(expire)]
        payload == IF email # None THEN base @@ [email |-> email] ELSE base
    IN  [payload |-> payload, sig |-> Sign(payload, secret_key)]

decode_no_expiry(token, t) ==
    IF token.sig # Sign(token.payload, secret_key)
    THEN Raise(0, "Invalid or expired token")
    ELSE Ok(token.payload)

decode_access_token(token, t) ==
    IF token.sig # Sign(token.payload, secret_key)
    THEN Raise(0, "Invalid or expired token")
    ELSE IF token.payload.exp < timestamp(t)
    THEN Raise(0, "Invalid or expired token")
    ELSE Ok(token.payload)

PayloadGet(payload, key) ==
    IF key \in DOMAIN payload THEN payload[key] ELSE None

-----------------------------------------------------------------------------
(* app/models/user.py, app/helpers/crud_user.py *)

User(user_id, email, hashed_password, t) ==
    [user_id |-> user_id, email |-> email, hashed_password |-> hashed_password,
     is_active |-> TRUE, is_superuser |-> FALSE,
     created_at |-> t, last_login_at |-> NoTime]

NoUser == [user_id |-> 0]

get_user_by_email_exact(tbl, email) ==
    LET found == {i \in 1..Len(tbl) : tbl[i].email = email}
    IN  IF found = {} THEN NoUser
        ELSE tbl[CHOOSE i \in found : \A j \in found : i <= j]

get_user_by_email(tbl, email) ==
    LET normalized == Lower(email)
        found == {i \in 1..Len(tbl) : tbl[i].email = normalized}
    IN  IF found = {} THEN NoUser
        ELSE tbl[CHOOSE i \in found : \A j \in found : i <= j]

get_user_by_id(tbl, user_id) ==
    IF ~IsNumeric(user_id) THEN NoUser
    ELSE
    LET key == ToInt(user_id)
        found == {i \in 1..Len(tbl) : tbl[i].user_id = key}
    IN  IF found = {} THEN NoUser ELSE tbl[CHOOSE i \in found : TRUE]

EmailUniqueOff(tbl, email) == TRUE

(* unique=True on User.email *)
EmailUnique(tbl, email) == \A i \in 1..Len(tbl) : tbl[i].email # email


-----------------------------------------------------------------------------
(* app/core/dependencies.py *)

InactiveErrorGeneric == Raise(401, "Invalid authentication credentials")

InactiveError == Raise(403, "User account is inactive")

get_current_user_no_active_check(tbl, token, t) ==
    LET decoded == decode_access_token(token, t)
        user_id == PayloadGet(decoded.val, "sub")
        email == PayloadGet(decoded.val, "email")
        byId == IF user_id # None THEN get_user_by_id(tbl, user_id) ELSE NoUser
        user == IF byId = NoUser /\ email # None
                THEN get_user_by_email(tbl, email) ELSE byId
    IN  IF ~decoded.ok
        THEN Raise(401, "Invalid authentication credentials")
        ELSE IF user_id = None /\ email = None
        THEN Raise(401, "Invalid token payload")
        ELSE IF user = NoUser
        THEN Raise(401, "User not found")
        ELSE Ok(user)

get_current_user(tbl, token, t) ==
    LET decoded == decode_access_token(token, t)
    IN  IF ~decoded.ok
        THEN Raise(401, "Invalid authentication credentials")
        ELSE
        LET user_id == PayloadGet(decoded.val, "sub")
            email == PayloadGet(decoded.val, "email")
        IN  IF user_id = None /\ email = None
            THEN Raise(401, "Invalid token payload")
            ELSE
            LET byId == IF user_id # None
                        THEN get_user_by_id(tbl, user_id) ELSE NoUser
                user == IF byId = NoUser /\ email # None
                        THEN get_user_by_email(tbl, email) ELSE byId
            IN  IF user = NoUser
                THEN Raise(401, "User not found")
                ELSE IF ~user.is_active
                THEN InactiveError
                ELSE Ok(user)

-----------------------------------------------------------------------------
(* Inputs of the requests *)

EmailA == <<"a", "@", "x">>
EmailAUpper == <<"A", "@", "x">>
EmailB == <<"b", "@", "x">>
EmailC == <<"c", "@", "x">>

Emails == {EmailA, EmailAUpper, EmailB}
LoginNames == Emails \cup {EmailC}
Passwords == {"short", "longenough", "otherlongpw"}

UnknownSub == <<"9", "9">>

(* The rows a database file can hold before the process starts: none, or  *)
(* an account that was deactivated directly in the table.                  *)
SeedUser == [User(1, EmailC, hash_password("longenough"), 0)
                EXCEPT !.is_active = FALSE]

(* Tokens a client can present: the ones login handed out, copies of them *)
(* with an edited payload or signed with another key, and tokens signed    *)
(* with the published default secret_key.                                  *)
Tampered(tok) ==
    {[tok EXCEPT !.payload.sub = s] : s \in {Str(1), Str(2)} \ {tok.payload.sub}}
    \cup {[tok EXCEPT !.payload.exp = timestamp(MaxClock + access_token_expire_minutes)]}

Resigned(tok) == [payload |-> tok.payload, sig |-> Sign(tok.payload, OtherKey)]

CraftedTokens ==
    {create_access_token(None, None, MaxClock),
     create_access_token(UnknownSub, None, MaxClock),
     create_access_token(UnknownSub, EmailAUpper, MaxClock)}

ForgedTokens ==
    UNION {Tampered(tok) \cup {Resigned(tok)} : tok \in tokens}

Presented == tokens \cup ForgedTokens \cup CraftedTokens

-----------------------------------------------------------------------------
(* app/routers/auth.py *)

Idle == [op |-> "idle"]

PendingRegisters == {q \in Procs : pending[q].op = "register"}

(* register, up to the point where create_user is about to commit *)
RegisterBegin(p, email, password) ==
    /\ pending[p] = Idle
    /\ Len(users) + Cardinality(PendingRegisters) < MaxUsers
    /\ IF Len(password) < MinPasswordLength
           THEN /\ resp' = Response("register", 400,
                              "Password must be at least 8 characters long", None)
                /\ UNCHANGED pending
           ELSE IF get_user_by_email(users, email) # NoUser
           THEN /\ resp' = Response("register", 400,
                              "Email already registered", None)
                /\ UNCHANGED pending
           ELSE /\ pending' = [pending EXCEPT ![p] =
                                 [op |-> "register", email |-> email,
                                  password |-> password]]
                /\ UNCHANGED resp
    /\ UNCHANGED <<users, expenses, currencies, tokens, now, nextUuid>>

(* create_user: session.commit(), IntegrityError handling, the response *)
RegisterCommit(p) ==
    /\ pending[p].op = "register"
    /\ LET normalized_email == Lower(Strip(pending[p].email))
           user == User(Len(users) + 1, normalized_email,
                        hash_password(pending[p].password), now)
       IN  IF EmailUnique(users, normalized_email)
           THEN /\ users' = Append(users, user)
                /\ resp' = Response("register", 201, "",
                              [user_id |-> user.user_id, email |-> user.email,
                               is_active |-> user.is_active])
           ELSE /\ UNCHANGED users
                /\ resp' = Response("register", 409,
                              "A user with this email already exists",
                              [rollback |-> TRUE])
    /\ pending' = [pending EXCEPT ![p] = Idle]
    /\ UNCHANGED <<expenses, currencies, tokens, now, nextUuid>>

Login_active_only(username, password) ==
    LET user == get_user_by_email(users, username)
    IN  IF \/ user = NoUser
           \/ ~verify_password(password, user.hashed_password)
           \/ ~user.is_active
        THEN /\ resp' = Response("login", 401,
                           "Invalid credentials", None)
             /\ UNCHANGED <<users, expenses, currencies, tokens, pending,
                            now, nextUuid>>
        ELSE
        LET token == create_access_token(Str(user.user_id), user.email, now)
        IN  /\ Cardinality(tokens \cup {token}) <= MaxTokens
            /\ users' = [users EXCEPT ![user.user_id].last_login_at = now]
            /\ tokens' = tokens \cup {token}
            /\ resp' = Response("login", 200, "",
                          [access_token |-> token, token_type |-> "bearer"])
            /\ UNCHANGED <<expenses, currencies, pending, now, nextUuid>>

Login(username, password) ==
    LET user == get_user_by_email(users, username)
    IN  IF user = NoUser \/ ~verify_password(password, user.hashed_password)
        THEN /\ resp' = Response("login", 401,
                           "Invalid credentials", None)
             /\ UNCHANGED <<users, expenses, currencies, tokens, pending,
                            now, nextUuid>>
        ELSE
        LET token == create_access_token(Str(user.user_id), user.email, now)
        IN  /\ Cardinality(tokens \cup {token}) <= MaxTokens
            /\ users' = [users EXCEPT ![user.user_id].last_login_at = now]
            /\ tokens' = tokens \cup {token}
            /\ resp' = Response("login", 200, "",
                          [access_token |-> token, token_type |-> "bearer"])
            /\ UNCHANGED <<expenses, currencies, pending, now, nextUuid>>

Tick ==
    /\ now + TickMinutes <= MaxClock
    /\ now' = now + TickMinutes
    /\ UNCHANGED <<users, expenses, currencies, tokens, pending, nextUuid, resp>>


-----------------------------------------------------------------------------
(* app/models/expense.py, app/schemas/expense.py *)

(* An expense id is a UUID (models/expense.py); the id a route receives is *)
(* the path segment, an integer literal or not.                            *)
UuidValue(n) == [kind |-> "uuid", v |-> n]
IntValue(n) == [kind |-> "int", v |-> n]

uuid4(drawn) == UuidValue(drawn + 1)

UnknownUuid == UuidValue(0)

PathIds ==
    {IntValue(n) : n \in 1..MaxExpenses}
    \cup {expenses[i].id : i \in 1..Len(expenses)}
    \cup {UnknownUuid}

(* ExpenseCreate declares the four fields with their types and nothing    *)
(* else: every well-typed body passes.                                     *)
ExpenseCreate(amount, category, vendor, currency_id) ==
    [amount |-> amount, category |-> category, vendor |-> vendor,
     currency_id |-> currency_id]

(* Expense built from the dumped body plus user_id: a table model is     *)
(* constructed without                                                     *)
(* running the field constraints or validators of ExpenseBase.             *)
Expense(data, user_id, id) ==
    [id |-> id, amount |-> data.amount, category |-> data.category,
     vendor |-> data.vendor, currency_id |-> data.currency_id,
     user_id |-> user_id]

normalize_category(value) == Lower(Strip(value))
normalize_vendor(value) == Strip(value)

(* ExpenseResponse declares id: int *)
ExpenseResponseValid(expense) == expense.id.kind = "int"

ExpenseBodies ==
    {ExpenseCreate(10, <<"F", "o", "o", "d", " ">>, <<" ", "S", "w", " ">>, "INR"),
     ExpenseCreate(0, <<"f", "o", "o", "d">>, <<"S", "w">>, "INR")}

UpdateBodies ==
    {[category |-> <<"F", "o", "o", "d", " ">>, amount |-> 20],
     [currency |-> "USD"]}

-----------------------------------------------------------------------------
(* app/routers/expenses.py *)

(* Bind processing of the id parameter against the Uuid column *)
UuidBind(value) ==
    IF value.kind = "uuid" THEN Ok(value) ELSE Raise(500, InternalServerError)

(* SQLite compares the TEXT column user_id with an integer parameter by   *)
(* converting the parameter to text.                                       *)
TextColumnEq(column, param) == column = Str(param)

get_expense_or_404(tbl, expense_id, user_id) ==
    LET bound == UuidBind(expense_id)
    IN  IF ~bound.ok THEN bound
        ELSE
        LET found == {i \in 1..Len(tbl) :
                         /\ tbl[i].id = bound.val
                         /\ TextColumnEq(tbl[i].user_id, user_id)}
        IN  IF found = {}
            THEN Raise(404, "Expense not found")
            ELSE Ok(CHOOSE i \in found : \A j \in found : i <= j)

OwnedBy(tbl, owner) == SelectSeq(tbl, LAMBDA e : e.user_id = owner)

Page(rows, offset, limit) ==
    SubSeq(rows, offset + 1,
           IF offset + limit < Len(rows) THEN offset + limit ELSE Len(rows))

RemoveAt(tbl, i) == SubSeq(tbl, 1, i - 1) \o SubSeq(tbl, i + 1, Len(tbl))

Rejected(route, err) ==
    /\ resp' = Response(route, err.status, err.detail, None)
    /\ UNCHANGED <<users, expenses, currencies, tokens, pending, now, nextUuid>>

(* The handlers, called with the user the dependency resolved *)

get_all_expenses(current_user, offset, limit) ==
    LET rows == Page(OwnedBy(expenses, Str(current_user.user_id)), offset, limit)
    IN  /\ resp' =
             IF \A i \in 1..Len(rows) : ExpenseResponseValid(rows[i])
             THEN Response("get_all_expenses", 200, "", rows)
             ELSE Response("get_all_expenses", 500, InternalServerError, None)
        /\ UNCHANGED <<users, expenses, currencies, tokens, pending,
                       now, nextUuid>>

create_expense(current_user, expense_data) ==
    LET expense == Expense(expense_data, Str(current_user.user_id),
                           uuid4(nextUuid))
    IN  /\ nextUuid < MaxExpenses
        /\ expenses' = Append(expenses, expense)
        /\ nextUuid' = nextUuid + 1
        /\ resp' =
             IF ExpenseResponseValid(expense)
             THEN Response("create_expense", 201, "", expense)
             ELSE Response("create_expense", 500, InternalServerError, None)
        /\ UNCHANGED <<users, currencies, tokens, pending, now>>

get_expense(current_user, expense_id) ==
    IF expense_id.kind # "int"
    THEN Rejected("get_expense", Raise(422, "Unprocessable Entity"))
    ELSE
    LET r == get_expense_or_404(expenses, expense_id, current_user.user_id)
    IN  IF ~r.ok THEN Rejected("get_expense", r)
        ELSE /\ resp' =
                  IF ExpenseResponseValid(expenses[r.val])
                  THEN Response("get_expense", 200, "", expenses[r.val])
                  ELSE Response("get_expense", 500, InternalServerError, None)
             /\ UNCHANGED <<users, expenses, currencies, tokens, pending,
                            now, nextUuid>>

update_expense(current_user, expense_id, expense_data) ==
    IF expense_id.kind # "int"
    THEN Rejected("update_expense", Raise(422, "Unprocessable Entity"))
    ELSE
    LET r == get_expense_or_404(expenses, expense_id, current_user.user_id)
    IN  IF ~r.ok THEN Rejected("update_expense", r)
        ELSE IF \E f \in DOMAIN expense_data : f \notin DOMAIN expenses[r.val]
        THEN Rejected("update_expense", Raise(500, InternalServerError))
        ELSE
        LET updated == [f \in DOMAIN expenses[r.val] |->
                           IF f \in DOMAIN expense_data
                           THEN expense_data[f] ELSE expenses[r.val][f]]
        IN  /\ expenses' = [expenses EXCEPT ![r.val] = updated]
            /\ resp' =
                 IF ExpenseResponseValid(updated)
                 THEN Response("update_expense", 200, "", updated)
                 ELSE Response("update_expense", 500, InternalServerError, None)
            /\ UNCHANGED <<users, currencies, tokens, pending, now, nextUuid>>

delete_expense(current_user, expense_id) ==
    IF expense_id.kind # "int"
    THEN Rejected("delete_expense", Raise(422, "Unprocessable Entity"))
    ELSE
    LET r == get_expense_or_404(expenses, expense_id, current_user.user_id)
    IN  IF ~r.ok THEN Rejected("delete_expense", r)
        ELSE /\ expenses' = RemoveAt(expenses, r.val)
             /\ resp' = Response("delete_expense", 204, "", None)
             /\ UNCHANGED <<users, currencies, tokens, pending, now, nextUuid>>

(* The routes: the dependency get_current_user is resolved first and its  *)
(* exception answers the request; otherwise the handler runs on one of the *)
(* inputs the request may carry.                                           *)

GetAllExpenses(tok, pages) ==
    LET auth == get_current_user(users, tok, now)
    IN  IF ~auth.ok THEN Rejected("get_all_expenses", auth)
        ELSE \E page \in pages : get_all_expenses(auth.val, page[1], page[2])

CreateExpense(tok, bodies) ==
    LET auth == get_current_user(users, tok, now)
    IN  IF ~auth.ok THEN Rejected("create_expense", auth)
        ELSE \E expense_data \in bodies : create_expense(auth.val, expense_data)

GetExpense(tok, ids) ==
    LET auth == get_current_user(users, tok, now)
    IN  IF ~auth.ok THEN Rejected("get_expense", auth)
        ELSE \E expense_id \in ids : get_expense(auth.val, expense_id)

UpdateExpense(tok, ids, bodies) ==
    LET auth == get_current_user(users, tok, now)
    IN  IF ~auth.ok THEN Rejected("update_expense", auth)
        ELSE \E expense_id \in ids, expense_data \in bodies :
                update_expense(auth.val, expense_id, expense_data)

DeleteExpense(tok, ids) ==
    LET auth == get_current_user(users, tok, now)
    IN  IF ~auth.ok THEN Rejected("delete_expense", auth)
        ELSE \E expense_id \in ids : delete_expense(auth.val, expense_id)


-----------------------------------------------------------------------------
(* app/models/currency.py, app/schemas/currency.py, app/routers/currencies.py *)

CurrencyCreate(currency_id, name, is_active) ==
    [currency_id |-> currency_id, name |-> name, is_active |-> is_active]

CurrencyBodies ==
    {CurrencyCreate("INR", "Indian Rupee", TRUE),
     CurrencyCreate("INR", "Rupee", FALSE),
     CurrencyCreate("US", "Dollar", TRUE)}

CurrencyExists(tbl, currency_id) ==
    \E i \in 1..Len(tbl) : tbl[i].currency_id = currency_id

PendingCurrencies == {q \in Procs : pending[q].op = "create_currency"}

ListCurrencies(tok) ==
    LET auth == get_current_user(users, tok, now)
    IN  IF ~auth.ok THEN Rejected("list_currencies", auth)
        ELSE /\ resp' = Response("list_currencies", 200, "",
                           SelectSeq(currencies, LAMBDA c : c.is_active))
             /\ UNCHANGED <<users, expenses, currencies, tokens, pending,
                            now, nextUuid>>

(* create_currency, up to the point where it is about to commit *)
CreateCurrencyBegin(p, tok, currency_data) ==
    /\ pending[p] = Idle
    /\ LET auth == get_current_user(users, tok, now)
       IN  IF ~auth.ok THEN Rejected("create_currency", auth)
           ELSE IF CurrencyExists(currencies, currency_data.currency_id)
           THEN Rejected("create_currency", Raise(409, "Currency " \o currency_data.currency_id
                                    \o " already exists"))
           ELSE /\ Len(currencies) + Cardinality(PendingCurrencies) < MaxCurrencies
                /\ pending' = [pending EXCEPT ![p] =
                                 [op |-> "create_currency",
                                  data |-> currency_data]]
                /\ UNCHANGED <<users, expenses, currencies, tokens, now,
                               nextUuid, resp>>

(* session.commit() of create_currency; a primary-key violation is not    *)
(* caught by the handler.                                                  *)
CreateCurrencyCommit(p) ==
    /\ pending[p].op = "create_currency"
    /\ LET data == pending[p].data
       IN   IF ~CurrencyExists(currencies, data.currency_id)
           THEN /\ currencies' = Append(currencies, data)
                /\ resp' = Response("create_currency", 201, "", data)
           ELSE /\ UNCHANGED currencies
                /\ resp' = Response("create_currency", 500,
                              InternalServerError, None)
    /\ pending' = [pending EXCEPT ![p] = Idle]
    /\ UNCHANGED <<users, expenses, tokens, now, nextUuid>>

-----------------------------------------------------------------------------
(* app/db/engine.py: the session dependency of a request *)

NoRequest == [phase |-> "idle"]

(* The ways a handler, or a dependency that runs before it, can end *)
Outcomes == {"return", "HTTPException", "Exception"}

(* Session(engine) *)
Session == [state |-> "open", closes |-> 0, used |-> FALSE,
            used_after_close |-> FALSE]

(* session.close() *)
close(session) == [session EXCEPT !.state = "closed", !.closes = @ + 1]

(* any statement run on the session: exec, get, add, commit, rollback *)
use(session) ==
    [session EXCEPT !.used = TRUE,
                    !.used_after_close = @ \/ session.state = "closed"]

InFlight == {p \in Procs : requests[p].phase # "idle"}

(* SessionDep resolved for a request: get_session runs up to its yield    *)
(* the first time; Depends caches the value for the rest of the request,   *)
(* so get_current_user and the handler receive the same session.           *)
get_session_enter(p) ==
    /\ requests[p].phase \in {"idle", "resolving"}
    /\ IF requests[p].phase = "idle"
       THEN /\ Len(sessions) < MaxSessions
            /\ sessions' = Append(sessions, Session)
            /\ requests' = [requests EXCEPT ![p] =
                              [phase |-> "resolving",
                               session |-> Len(sessions) + 1]]
       ELSE /\ requests' = [requests EXCEPT ![p].phase = "handling"]
            /\ UNCHANGED sessions
    /\ UNCHANGED <<service, nextUuid, resp, EXPENSES_BY_USER>>

(* get_current_user or the handler runs a statement on its session *)
handler_uses_session(p) ==
    /\ requests[p].phase \in {"resolving", "handling"}
    /\ ~sessions[requests[p].session].used
    /\ sessions' = [sessions EXCEPT ![requests[p].session] = use(@)]
    /\ UNCHANGED <<service, nextUuid, resp, requests, EXPENSES_BY_USER>>

(* the request leaves the code that runs inside the yield: the handler    *)
(* returns, or it or a dependency raises                                   *)
handler_exit(p, outcome) ==
    /\ requests[p].phase \in {"resolving", "handling"}
    /\ outcome = "return" => requests[p].phase = "handling"
    /\ requests' = [requests EXCEPT ![p] =
                      [phase |-> "exiting", session |-> @.session,
                       outcome |-> outcome]]
    /\ UNCHANGED <<service, nextUuid, resp, sessions, EXPENSES_BY_USER>>

(* get_session without try/finally: the code after the yield runs only    *)
(* when nothing was raised                                                 *)
get_session_exit_unguarded(p) ==
    /\ requests[p].phase = "exiting"
    /\ sessions' = IF requests[p].outcome = "return"
                   THEN [sessions EXCEPT ![requests[p].session] = close(@)]
                   ELSE sessions
    /\ requests' = [requests EXCEPT ![p] = NoRequest]
    /\ UNCHANGED <<service, nextUuid, resp, EXPENSES_BY_USER>>

(* get_session after its yield: finally: session.close() *)
get_session_exit(p) ==
    /\ requests[p].phase = "exiting"
    /\ sessions' = [sessions EXCEPT ![requests[p].session] = close(@)]
    /\ requests' = [requests EXCEPT ![p] = NoRequest]
    /\ UNCHANGED <<service, nextUuid, resp, EXPENSES_BY_USER>>

-----------------------------------------------------------------------------
(* src/main.py: the in-memory prototype.  Amounts are in hundredths       *)
(* (10.5 is 1050); user ids are strings; the other text is sequences of    *)
(* characters.                                                             *)

(* ExpenseBase: the field constraints, then the two normalizing           *)
(* validators; ExpenseCreate and ExpenseUpdate add nothing to it.          *)
IsUpper(c) == c \in DOMAIN LowerOf

ExpenseBase(data) ==
    IF \/ data.amount <= 0
       \/ Len(data.category) < 1 \/ Len(data.category) > 50
       \/ Len(data.currency) # 3
       \/ \E i \in 1..Len(data.currency) : ~IsUpper(data.currency[i])
       \/ Len(data.vendor) < 1 \/ Len(data.vendor) > 100
    THEN Raise(422, "Unprocessable Entity")
    ELSE Ok([amount |-> data.amount,
             category |-> Lower(Strip(data.category)),
             currency |-> data.currency,
             vendor |-> Strip(data.vendor)])

(* Expense built from the dumped data, with its id from uuid4 *)
StoredExpense(data, id) ==
    [id |-> id, amount |-> data.amount, category |-> data.category,
     currency |-> data.currency, vendor |-> data.vendor]

(* The expenses built when the module is imported; their ids are uuid4    *)
(* values drawn before any request.                                        *)
SeedExpense(k, amount, category, currency, vendor) ==
    StoredExpense(ExpenseBase([amount |-> amount, category |-> category,
                               currency |-> currency, vendor |-> vendor]).val,
                  UuidValue(0 - k))

SeedStore ==
    "123" :> <<
        SeedExpense(1, 1050, <<"f", "o", "o", "d">>,
                    <<"I", "N", "R">>, <<"S", "w", "i", "g", "g", "y">>),
        SeedExpense(2, 12000, <<"t", "r", "a", "n", "s", "p", "o", "r", "t", "a", "t", "i", "o", "n">>,
                    <<"I", "N", "R">>, <<"U", "b", "e", "r">>),
        SeedExpense(3, 12000, <<"t", "r", "a", "n", "s", "p", "o", "r", "t", "a", "t", "i", "o", "n">>,
                    <<"I", "N", "R">>, <<"U", "b", "e", "r">>),
        SeedExpense(4, 1050, <<"f", "o", "o", "d">>,
                    <<"I", "N", "R">>, <<"S", "w", "i", "g", "g", "y">>)>> @@
    "124" :> <<
        SeedExpense(5, 150000, <<"s", "h", "o", "p", "p", "i", "n", "g">>,
                    <<"I", "N", "R">>, <<"A", "m", "a", "z", "o", "n">>),
        SeedExpense(6, 30000, <<"e", "n", "t", "e", "r", "t", "a", "i", "n", "m", "e", "n", "t">>,
                    <<"I", "N", "R">>, <<"B", "o", "o", "k", "M", "y", "S", "h", "o", "w">>)>> @@
    "125" :> <<
        SeedExpense(7, 25000, <<"f", "o", "o", "d">>,
                    <<"I", "N", "R">>, <<"Z", "o", "m", "a", "t", "o">>)>> @@
    "126" :> <<
        SeedExpense(8, 120000, <<"u", "t", "i", "l", "i", "t", "i", "e", "s">>,
                    <<"I", "N", "R">>, <<"E", "l", "e", "c", "t", "r", "i", "c", "i", "t", "y", " ", "B", "o", "a", "r", "d">>),
        SeedExpense(9, 79900, <<"s", "u", "b", "s", "c", "r", "i", "p", "t", "i", "o", "n">>,
                    <<"I", "N", "R">>, <<"N", "e", "t", "f", "l", "i", "x">>)>> @@
    "127" :> <<
        SeedExpense(10, 45000, <<"h", "e", "a", "l", "t", "h">>,
                    <<"I", "N", "R">>, <<"P", "h", "a", "r", "m", "E", "a", "s", "y">>)>>

UserNotFound(user_id) ==
    Raise(404, "User with ID '" \o user_id \o "' not found")

ExpenseNotFound(expense_id) ==
    Raise(404, "Expense with ID '" \o ToString(expense_id.v) \o "' not found")

get_user_expenses_from_storage_or_empty(user_id) ==
    IF user_id \notin DOMAIN EXPENSES_BY_USER
    THEN Ok(<<>>)
    ELSE Ok(EXPENSES_BY_USER[user_id])

get_user_expenses_from_storage(user_id) ==
    IF user_id \notin DOMAIN EXPENSES_BY_USER
    THEN UserNotFound(user_id)
    ELSE Ok(EXPENSES_BY_USER[user_id])

filter_expenses_by_category_exact_case(exps, category) ==
    IF category = None THEN exps
    ELSE LET normalized_category == Strip(category)
         IN  SelectSeq(exps, LAMBDA expense : expense.category = normalized_category)

(* "not category" holds for None and for the empty string *)
filter_expenses_by_category(exps, category) ==
    IF category = None THEN exps
    ELSE LET normalized_category == Lower(Strip(category))
         IN  SelectSeq(exps, LAMBDA expense : expense.category = normalized_category)

(* index of the first expense with that id, 0 for None *)
find_expense_by_id(exps, expense_id) ==
    LET found == {i \in 1..Len(exps) : exps[i].id = expense_id}
    IN  IF found = {} THEN 0 ELSE CHOOSE i \in found : \A j \in found : i <= j

(* list.remove(x): drops the first element equal to x *)
remove(list, x) ==
    LET at == CHOOSE i \in 1..Len(list) :
                 list[i] = x /\ \A j \in 1..(i - 1) : list[j] # x
    IN  SubSeq(list, 1, at - 1) \o SubSeq(list, at + 1, Len(list))

Answered(route, result) ==
    /\ resp' = Response(route, result.status, result.detail, None)
    /\ UNCHANGED <<service, nextUuid, sessions, requests, EXPENSES_BY_USER>>

main_get_all_expenses ==
    /\ resp' = Response("main_get_all_expenses", 200, "", EXPENSES_BY_USER)
    /\ UNCHANGED <<service, nextUuid, sessions, requests, EXPENSES_BY_USER>>

get_user_expenses(user_id, category) ==
    LET exps == get_user_expenses_from_storage(user_id)
    IN  IF ~exps.ok THEN Answered("get_user_expenses", exps)
        ELSE /\ resp' = Response("get_user_expenses", 200, "",
                           filter_expenses_by_category(exps.val, category))
             /\ UNCHANGED <<service, nextUuid, sessions, requests,
                            EXPENSES_BY_USER>>

add_expense_at_front(expense_data, user_id) ==
    LET exps == get_user_expenses_from_storage(user_id)
    IN  IF ~exps.ok THEN Answered("add_expense", exps)
        ELSE
        LET expense == StoredExpense(ExpenseBase(expense_data).val,
                                     uuid4(nextUuid))
        IN  /\ nextUuid < MaxAdded
            /\ EXPENSES_BY_USER' =
                 [EXPENSES_BY_USER EXCEPT ![user_id] = <<expense>> \o @]
            /\ nextUuid' = nextUuid + 1
            /\ resp' = Response("add_expense", 201, "", expense)
            /\ UNCHANGED <<service, sessions, requests>>

add_expense(expense_data, user_id) ==
    LET exps == get_user_expenses_from_storage(user_id)
    IN  IF ~exps.ok THEN Answered("add_expense", exps)
        ELSE
        LET expense == StoredExpense(ExpenseBase(expense_data).val,
                                     uuid4(nextUuid))
        IN  /\ nextUuid < MaxAdded
            /\ EXPENSES_BY_USER' =
                 [EXPENSES_BY_USER EXCEPT ![user_id] = Append(@, expense)]
            /\ nextUuid' = nextUuid + 1
            /\ resp' = Response("add_expense", 201, "", expense)
            /\ UNCHANGED <<service, sessions, requests>>

main_update_expense(expense_data, user_id, expense_id) ==
    LET exps == get_user_expenses_from_storage(user_id)
    IN  IF ~exps.ok THEN Answered("main_update_expense", exps)
        ELSE
        LET at == find_expense_by_id(exps.val, expense_id)
        IN  IF at = 0
            THEN Answered("main_update_expense", ExpenseNotFound(expense_id))
            ELSE
            LET expense == [exps.val[at] EXCEPT
                              !.amount = expense_data.amount,
                              !.category = expense_data.category,
                              !.currency = expense_data.currency,
                              !.vendor = expense_data.vendor]
            IN  /\ EXPENSES_BY_USER' =
                     [EXPENSES_BY_USER EXCEPT ![user_id][at] = expense]
                /\ resp' = Response("main_update_expense", 200, "", expense)
                /\ UNCHANGED <<service, nextUuid, sessions, requests>>

main_delete_expense(user_id, expense_id) ==
    LET exps == get_user_expenses_from_storage(user_id)
    IN  IF ~exps.ok THEN Answered("main_delete_expense", exps)
        ELSE
        LET at == find_expense_by_id(exps.val, expense_id)
        IN  IF at = 0
            THEN Answered("main_delete_expense", ExpenseNotFound(expense_id))
            ELSE /\ EXPENSES_BY_USER' =
                      [EXPENSES_BY_USER EXCEPT
                         ![user_id] = remove(@, exps.val[at])]
                 /\ resp' = Response("main_delete_expense", 204, "", None)
                 /\ UNCHANGED <<service, nextUuid, sessions, requests>>

(* A route with a request body: the body is validated against the schema  *)
(* (ExpenseCreate, ExpenseUpdate) before the handler is called with it.    *)
AddExpense(body, user_id) ==
    LET expense_data == ExpenseBase(body)
    IN  IF ~expense_data.ok THEN Answered("add_expense", expense_data)
        ELSE add_expense(expense_data.val, user_id)

PutExpense(body, user_id, expense_id) ==
    LET expense_data == ExpenseBase(body)
    IN  IF ~expense_data.ok THEN Answered("main_update_expense", expense_data)
        ELSE main_update_expense(expense_data.val, user_id, expense_id)

-----------------------------------------------------------------------------
(* The service *)

Init ==
    /\ users \in {<<>>, <<SeedUser>>}
    /\ expenses = <<>>
    /\ currencies = <<>>
    /\ tokens = {}
    /\ pending = [p \in Procs |-> Idle]
    /\ now = 0
    /\ nextUuid = 0
    /\ resp = Response("none", 0, "", None)
    /\ sessions = <<>>
    /\ requests = [p \in Procs |-> NoRequest]
    /\ EXPENSES_BY_USER = SeedStore

(* Tokens presented to the expense and currency routes *)
OtherKeyToken == Resigned(create_access_token(Str(1), EmailA, 0))

RouteTokens == tokens \cup CraftedTokens \cup {OtherKeyToken}

Worker == {1}

(* offset and limit of the list requests *)
Pages == {<<0, 100>>, <<1, 1>>}

(* The whole service at one instant: every route, one worker *)
Next ==
    \/ /\ \E p \in Worker, email \in {EmailA, EmailB} :
             RegisterBegin(p, email, "longenough")
       /\ UNCHANGED apart
    \/ /\ \E p \in Worker : RegisterCommit(p)
       /\ UNCHANGED apart
    \/ /\ \E username \in {EmailA, EmailB, EmailC} : Login(username, "longenough")
       /\ UNCHANGED apart
    \/ /\ \E tok \in RouteTokens : GetAllExpenses(tok, Pages)
       /\ UNCHANGED apart
    \/ /\ \E tok \in RouteTokens : CreateExpense(tok, ExpenseBodies)
       /\ UNCHANGED apart
    \/ /\ \E tok \in RouteTokens : GetExpense(tok, PathIds)
       /\ UNCHANGED apart
    \/ /\ \E tok \in RouteTokens : UpdateExpense(tok, PathIds, UpdateBodies)
       /\ UNCHANGED apart
    \/ /\ \E tok \in RouteTokens : DeleteExpense(tok, PathIds)
       /\ UNCHANGED apart
    \/ /\ \E tok \in RouteTokens : ListCurrencies(tok)
       /\ UNCHANGED apart
    \/ /\ \E p \in Worker, tok \in RouteTokens :
             CreateCurrencyBegin(p, tok, CurrencyCreate("INR", "Indian Rupee", TRUE))
       /\ UNCHANGED apart
    \/ /\ \E p \in Worker : CreateCurrencyCommit(p)
       /\ UNCHANGED apart

Spec == Init /\ [][Next]_vars

(* Registration, login and the authentication dependency: two workers,    *)
(* every letter case and password, forged tokens, and the clock            *)
NextAuth ==
    \/ /\ \E p \in Procs, email \in Emails, password \in Passwords :
             RegisterBegin(p, email, password)
       /\ UNCHANGED apart
    \/ /\ \E p \in Procs : RegisterCommit(p)
       /\ UNCHANGED apart
    \/ /\ \E username \in LoginNames, password \in Passwords :
             Login(username, password)
       /\ UNCHANGED apart
    \/ /\ Tick
       /\ UNCHANGED apart
    \/ /\ \E tok \in Presented : ListCurrencies(tok)
       /\ UNCHANGED apart

SpecAuth == Init /\ [][NextAuth]_vars

(* The currency routes under two workers: a request that passed the       *)
(* existence check and another one for the same code, in either order      *)
NextCurrency ==
    \/ /\ \E p \in Worker : RegisterBegin(p, EmailA, "longenough")
       /\ UNCHANGED apart
    \/ /\ \E p \in Worker : RegisterCommit(p)
       /\ UNCHANGED apart
    \/ /\ Login(EmailA, "longenough")
       /\ UNCHANGED apart
    \/ /\ \E tok \in tokens \cup {OtherKeyToken} : ListCurrencies(tok)
       /\ UNCHANGED apart
    \/ /\ \E p \in Procs, tok \in tokens \cup {OtherKeyToken},
             currency_data \in CurrencyBodies :
             CreateCurrencyBegin(p, tok, currency_data)
       /\ UNCHANGED apart
    \/ /\ \E p \in Procs : CreateCurrencyCommit(p)
       /\ UNCHANGED apart

SpecCurrency == Init /\ [][NextCurrency]_vars

(* Requests to the prototype *)
ProtoUsers == {"123", "999"}

ProtoBodies ==
    {[amount |-> 5000, category |-> <<"f", "o", "o", "d">>,
      currency |-> <<"I", "N", "R">>,
      vendor |-> <<"T", "e", "s", "t", " ", "V", "e", "n", "d", "o", "r">>],
     [amount |-> 2000, category |-> <<" ", "F", "u", "n", " ">>,
      currency |-> <<"U", "S", "D">>, vendor |-> <<" ", "P", "v", "r">>],
     [amount |-> 0, category |-> <<"f", "o", "o", "d">>,
      currency |-> <<"I", "N", "R">>, vendor |-> <<"S", "w">>]}

CategoryFilters ==
    {None, <<"f", "o", "o", "d">>, <<" ", "F", "O", "o", "d", " ">>,
     <<"F", "U", "N">>, <<"h", "e", "a", "l", "t", "h">>, <<" ">>}

ProtoIds ==
    {UuidValue(0 - 1), UuidValue(0 - 7), UnknownUuid}
    \cup {uuid4(n) : n \in 0..(nextUuid - 1)}

NextPrototype ==
    \/ main_get_all_expenses
    \/ \E user_id \in ProtoUsers, category \in CategoryFilters :
          get_user_expenses(user_id, category)
    \/ \E body \in ProtoBodies, user_id \in ProtoUsers :
          AddExpense(body, user_id)
    \/ \E body \in ProtoBodies, user_id \in ProtoUsers, expense_id \in ProtoIds :
          PutExpense(body, user_id, expense_id)
    \/ \E user_id \in ProtoUsers, expense_id \in ProtoIds :
          main_delete_expense(user_id, expense_id)

SpecPrototype == Init /\ [][NextPrototype]_vars

(* Requests of two workers seen from the session dependency *)
NextSession ==
    \/ \E p \in Procs : get_session_enter(p)
    \/ \E p \in Procs : handler_uses_session(p)
    \/ \E p \in Procs, outcome \in Outcomes : handler_exit(p, outcome)
    \/ \E p \in Procs : get_session_exit(p)

SpecSession == Init /\ [][NextSession]_vars

(* A handler ends (none of them loops or waits), and the framework then   *)
(* resumes the dependency after its yield.                                 *)
SpecSessionFair ==
    /\ SpecSession
    /\ \A p \in Procs :
          /\ WF_vars(\E outcome \in Outcomes : handler_exit(p, outcome))
          /\ WF_vars(get_session_exit(p))


-----------------------------------------------------------------------------
(* Vocabulary of the properties *)

UserRows == {users[i] : i \in 1..Len(users)}

SameEmail(e1, e2) == Lower(e1) = Lower(e2)

Registered(email) == \E u \in UserRows : SameEmail(u.email, email)

IsLowercase(s) == \A i \in 1..Len(s) : \A k \in 1..26 : s[i] # UpperChars[k]

UniqueEmails(tbl) ==
    \A i, j \in 1..Len(tbl) : tbl[i].email = tbl[j].email => i = j

WeakPasswordResponse ==
    Response("register", 400, "Password must be at least 8 characters long", None)

EmailTakenResponse == Response("register", 400, "Email already registered", None)

(* What a token refers to, read off the token and the user table *)
SignatureValid(tok) == tok.sig = Sign(tok.payload, secret_key)
Expired(tok) == tok.payload.exp < timestamp(now)
Subject(tok) == PayloadGet(tok.payload, "sub")
EmailClaim(tok) == PayloadGet(tok.payload, "email")

TokenInvalid(tok) == ~SignatureValid(tok) \/ Expired(tok)
PayloadEmpty(tok) == Subject(tok) = None /\ EmailClaim(tok) = None
UsersBySubject(tok) ==
    LET sub == Subject(tok)
    IN  IF sub = None THEN {}
        ELSE {users[i] : i \in {j \in 1..Len(users) : Str(users[j].user_id) = sub}}
UsersByEmail(tok) ==
    LET email == EmailClaim(tok)
    IN  IF email = None THEN {}
        ELSE LET lowered == Lower(email)
             IN  {users[i] : i \in {j \in 1..Len(users) :
                                        Lower(users[j].email) = lowered}}
Referenced(tok) ==
    LET bySubject == UsersBySubject(tok)
    IN  IF bySubject # {} THEN bySubject ELSE UsersByEmail(tok)
UserMissing(tok) == Referenced(tok) = {}
UserInactive(tok) == \E u \in Referenced(tok) : ~u.is_active

AuthMustFail(tok) ==
    \/ TokenInvalid(tok)
    \/ PayloadEmpty(tok)
    \/ LET referenced == Referenced(tok)
       IN  referenced = {} \/ \E u \in referenced : ~u.is_active

(* A request with token tok to one of the protected routes *)
ExpenseRequest(tok) ==
    \/ /\ resp'.route = "get_all_expenses"
       /\ GetAllExpenses(tok, {0, 1} \X {1, 100})
    \/ /\ resp'.route = "create_expense"
       /\ CreateExpense(tok, ExpenseBodies)
    \/ /\ resp'.route = "get_expense"
       /\ GetExpense(tok, PathIds)
    \/ /\ resp'.route = "update_expense"
       /\ UpdateExpense(tok, PathIds, UpdateBodies)
    \/ /\ resp'.route = "delete_expense"
       /\ DeleteExpense(tok, PathIds)

CurrencyRequest(tok) ==
    \/ /\ resp'.route = "list_currencies"
       /\ ListCurrencies(tok)
    \/ /\ resp'.route = "create_currency"
       /\ \E p \in Procs, body \in CurrencyBodies : CreateCurrencyBegin(p, tok, body)

ProtectedRequest(tok) == ExpenseRequest(tok) \/ CurrencyRequest(tok)

-----------------------------------------------------------------------------
(* C1: for every expense created by user A and every other authenticated  *)
(* user B, B's list never contains it, and B's get-by-id, update and       *)
(* delete on that expense id each answer 404 "Expense not found", the      *)
(* answer B gets for an id that does not exist, and change nothing.        *)

NotFoundResponse(route) == Response(route, 404, "Expense not found", None)

OtherUsersExpense(tok, i) ==
    /\ ~AuthMustFail(tok)
    /\ \A u \in Referenced(tok) : Str(u.user_id) # expenses[i].user_id

C1_OtherUserGetsNotFound ==
    [][\A tok \in RouteTokens : \A i \in 1..Len(expenses) :
          OtherUsersExpense(tok, i) =>
            /\ \A offset \in {0, 1}, limit \in {1, 100} :
                  GetAllExpenses(tok, {<<offset, limit>>}) =>
                     \A k \in 1..Len(resp'.body) : resp'.body[k] # expenses[i]
            /\ \A id \in {expenses[i].id, UnknownUuid, IntValue(expenses[i].id.v)} :
                  /\ GetExpense(tok, {id}) =>
                        resp' = NotFoundResponse("get_expense") /\ UNCHANGED db
                  /\ DeleteExpense(tok, {id}) =>
                        resp' = NotFoundResponse("delete_expense") /\ UNCHANGED db
                  /\ \A body \in UpdateBodies :
                        UpdateExpense(tok, {id}, {body}) =>
                           resp' = NotFoundResponse("update_expense") /\ UNCHANGED db
      ]_vars

-----------------------------------------------------------------------------
(* C2: a registration adds a user exactly when the password has at least  *)
(* 8 characters and no user has the same email up to letter case; the new  *)
(* row has the lowercase email and a digest that differs from the          *)
(* plaintext; a short password is answered WeakPassword and a taken email  *)
(* is answered with an email-taken error, both leaving the table as it     *)
(* was; no two rows ever share an email.                                   *)

RegisterBeginChecked ==
    \A p \in Procs, email \in Emails, password \in Passwords :
       ((pending'[p] # pending[p] \/ resp'.route = "register")
          /\ RegisterBegin(p, email, password)) =>
          /\ users' = users
          /\ Len(password) < 8 => resp' = WeakPasswordResponse /\ pending' = pending
          /\ (Len(password) >= 8 /\ Registered(email)) =>
                resp' = EmailTakenResponse /\ pending' = pending
          /\ (Len(password) >= 8 /\ ~Registered(email)) => pending'[p].op = "register"

RegisterCommitChecked ==
    \A p \in Procs :
       RegisterCommit(p) =>
          IF Len(pending[p].password) >= 8 /\ ~Registered(pending[p].email)
          THEN /\ Len(users') = Len(users) + 1
               /\ SubSeq(users', 1, Len(users)) = users
               /\ SameEmail(users'[Len(users')].email, pending[p].email)
               /\ IsLowercase(users'[Len(users')].email)
               /\ users'[Len(users')].hashed_password # pending[p].password
               /\ resp'.status = 201
               /\ resp'.body.email = users'[Len(users')].email
          ELSE /\ users' = users
               /\ resp'.status \in {400, 409}

C2_RegistrationCreatesOnce ==
    [][RegisterBeginChecked /\ RegisterCommitChecked /\ UniqueEmails(users')]_vars

C2_Witness ==
    /\ resp = EmailTakenResponse
    /\ Len(users) = 1
    /\ users[1].email = EmailA
    /\ users[1].hashed_password # "longenough"

-----------------------------------------------------------------------------
(* C3 as stated: when two registrations for one email both pass the       *)
(* pre-check, the one that commits second leaves a single row, is rolled   *)
(* back, and is answered exactly as a registration failing the pre-check.  *)

LosingCommit(p) == RegisterCommit(p) /\ Registered(pending[p].email)

C3_LoserGetsPreCheckError ==
    [][\A p \in Procs : LosingCommit(p) =>
          /\ users' = users
          /\ resp'.status = EmailTakenResponse.status
          /\ resp'.detail = EmailTakenResponse.detail]_vars

(* C3, amended: the request that commits second leaves a single row with  *)
(* that email, is rolled back, and is answered 409 "A user with this email *)
(* already exists", a handled error that differs from the 400 of the       *)
(* pre-check.                                                              *)
C3_LoserGetsConflict ==
    [][\A p \in Procs : LosingCommit(p) =>
          /\ users' = users
          /\ Cardinality({i \in 1..Len(users') :
                            SameEmail(users'[i].email, pending[p].email)}) = 1
          /\ resp'.status = 409
          /\ resp'.detail = "A user with this email already exists"
          /\ resp'.body = [rollback |-> TRUE]
          /\ pending'[p] = Idle]_vars

C3_Witness ==
    /\ resp.route = "register" /\ resp.status = 409
    /\ Len(users) = 1


-----------------------------------------------------------------------------
(* C4: on every expense route and every currency route, a request whose   *)
(* token fails decoding, carries neither subject nor email, refers to no   *)
(* user, or refers to an inactive user is answered by the authentication   *)
(* dependency and creates, changes or deletes nothing.                     *)

RejectedUnchanged ==
    /\ UNCHANGED <<users, expenses, currencies, pending, nextUuid>>
    /\ resp'.status \in {401, 403}
    /\ resp'.body = None

C4_FailedAuthChangesNothing ==
    [][RejectedUnchanged
       \/ \A tok \in RouteTokens : ~(AuthMustFail(tok) /\ ProtectedRequest(tok))]_vars

C4_Witness ==
    /\ resp.route = "create_expense" /\ resp.status = 403
    /\ \E tok \in tokens : UserInactive(tok)
    /\ Len(expenses) = 1

-----------------------------------------------------------------------------
(* C5 as stated: InvalidToken, UserNotFound and AccountInactive are all   *)
(* answered with status 401 and one generic message.                       *)

GenericAuthDetail == "Invalid authentication credentials"

FailsOneOfThree(tok) ==
    ~PayloadEmpty(tok) /\ (TokenInvalid(tok) \/ UserMissing(tok) \/ UserInactive(tok))

C5_AuthFailuresLookAlike ==
    \A tok \in RouteTokens :
       FailsOneOfThree(tok) =>
          /\ get_current_user(users, tok, now).status = 401
          /\ get_current_user(users, tok, now).detail = GenericAuthDetail

(* C5, amended: InvalidToken is answered 401 "Invalid authentication      *)
(* credentials", UserNotFound 401 "User not found" and AccountInactive 403 *)
(* "User account is inactive": the response tells the three apart.         *)
C5_AuthFailuresDiffer ==
    \A tok \in RouteTokens :
       LET answer == get_current_user(users, tok, now)
       IN  /\ TokenInvalid(tok) => answer = Raise(401, GenericAuthDetail)
           /\ (~TokenInvalid(tok) /\ ~PayloadEmpty(tok) /\ UserMissing(tok)) =>
                 answer = Raise(401, "User not found")
           /\ (~TokenInvalid(tok) /\ UserInactive(tok)) =>
                 answer = Raise(403, "User account is inactive")

C5_Witness ==
    /\ resp.route = "list_currencies" /\ resp.status = 403
    /\ \E tok \in tokens : UserInactive(tok) /\ ~TokenInvalid(tok)

-----------------------------------------------------------------------------
(* C6: a login with an unregistered email and a login with a registered   *)
(* email and a wrong password get the same 401 "Invalid credentials", get  *)
(* no token, and leave every user row, last-login timestamp included, as   *)
(* it was.                                                                 *)

InvalidCredentialsResponse == Response("login", 401, "Invalid credentials", None)

WrongPassword(username, password) ==
    \E u \in UserRows :
       SameEmail(u.email, username) /\ u.hashed_password # hash_password(password)

C6_FailedLoginIsGeneric ==
    [][\/ /\ resp' = InvalidCredentialsResponse
             /\ users' = users
             /\ tokens' = tokens
          \/ \A username \in LoginNames, password \in Passwords :
                ~(/\ resp'.route = "login"
                  /\ ~Registered(username) \/ WrongPassword(username, password)
                  /\ Login(username, password))]_vars

C6_Witness ==
    /\ resp = InvalidCredentialsResponse
    /\ Registered(EmailA) /\ ~Registered(EmailB)
    /\ \A u \in UserRows : u.last_login_at = NoTime

-----------------------------------------------------------------------------
(* C7: a login of user U with the right email in any letter case and the  *)
(* right password sets U's last-login timestamp and nothing else, and      *)
(* hands out a token with sub = U's id and email = U's email; while that   *)
(* token is unexpired and U is active the authentication dependency        *)
(* resolves it to U.                                                       *)

RightCredentials(i, username, password) ==
    /\ SameEmail(users[i].email, username)
    /\ users[i].hashed_password = hash_password(password)

IssuedFor(tok, u) ==
    /\ Subject(tok) = Str(u.user_id)
    /\ EmailClaim(tok) = u.email

HeldTokensResolve(tbl, held, t) ==
    \A tok \in held :
       \E i \in 1..Len(tbl) :
          /\ IssuedFor(tok, tbl[i])
          /\ \A j \in 1..Len(tbl) : IssuedFor(tok, tbl[j]) => j = i
          /\ (tok.payload.exp >= timestamp(t) /\ tbl[i].is_active) =>
                get_current_user(tbl, tok, t) = Ok(tbl[i])

C7_LoginIssuesTokenForUser ==
    [][/\ \A username \in LoginNames, password \in Passwords :
          \A i \in 1..Len(users) :
             (resp'.route = "login"
                /\ RightCredentials(i, username, password)
                /\ Login(username, password)) =>
                /\ users' = [users EXCEPT ![i].last_login_at = now]
                /\ resp'.status = 200
                /\ IssuedFor(resp'.body.access_token, users[i])
                /\ resp'.body.access_token \in tokens'
       /\ HeldTokensResolve(users', tokens', now')]_vars

C7_Witness ==
    /\ resp.route = "login" /\ resp.status = 200
    /\ Subject(resp.body.access_token) = Str(2)
    /\ users[2].last_login_at = now
    /\ users[1].last_login_at = NoTime

-----------------------------------------------------------------------------
(* C8: decoding a token issued for a subject gives claims with that sub   *)
(* (and that email when one was given) as long as it has not expired;      *)
(* decoding a tampered token, a token signed with another key or an        *)
(* expired token fails with the one generic error and gives no claims.     *)

Subjects == {Str(1), Str(2), UnknownSub}
IssueTimes == {t \in 0..MaxClock : t % TickMinutes = 0}

InvalidTokenError == Raise(0, "Invalid or expired token")

RoundTrip(subject, email, issued) ==
    LET decoded == decode_access_token(create_access_token(subject, email, issued), now)
    IN  IF issued + access_token_expire_minutes >= now
        THEN /\ decoded.ok
             /\ PayloadGet(decoded.val, "sub") = subject
             /\ PayloadGet(decoded.val, "email") = email
        ELSE decoded = InvalidTokenError

C8_TokenRoundTrip ==
    /\ \A subject \in Subjects, email \in {None, EmailA}, issued \in IssueTimes :
          issued <= now => RoundTrip(subject, email, issued)
    /\ \A tok \in tokens :
          IF Expired(tok)
          THEN decode_access_token(tok, now) = InvalidTokenError
          ELSE decode_access_token(tok, now) = Ok(tok.payload)
    /\ \A tok \in ForgedTokens : decode_access_token(tok, now) = InvalidTokenError

C8_Witness ==
    /\ \E tok \in tokens : Expired(tok)
    /\ \E tok \in tokens : ~Expired(tok)

-----------------------------------------------------------------------------
(* C9: a creation request with amount <= 0 fails validation and stores    *)
(* nothing, and every stored expense has amount > 0.                       *)

C9_AmountsArePositive ==
    [][/\ \A tok \in RouteTokens, body \in ExpenseBodies :
             (CreateExpense(tok, {body}) /\ body.amount <= 0) =>
                expenses' = expenses /\ resp'.status = 422
       /\ \A i \in 1..Len(expenses') : expenses'[i].amount > 0]_vars

-----------------------------------------------------------------------------
(* C10: every stored expense has a category equal to its trimmed          *)
(* lowercase form and a vendor equal to its trimmed form.                  *)

C10_StoredTextIsNormalized ==
    \A i \in 1..Len(expenses) :
       /\ expenses[i].category = normalize_category(expenses[i].category)
       /\ expenses[i].vendor = normalize_vendor(expenses[i].vendor)

-----------------------------------------------------------------------------
(* C11: an update of an expense by its owner succeeds, changes exactly    *)
(* the fields present in the payload, leaves the other fields of that      *)
(* expense (always its id and its owner) and every other expense as they   *)
(* were; over any step each expense keeps the owner it was created with.   *)

OwnersExpense(tok, i) ==
    /\ ~AuthMustFail(tok)
    /\ \E u \in Referenced(tok) : Str(u.user_id) = expenses[i].user_id

(* The ids under which a client can address the stored expense i *)
IdsOf(i) == {expenses[i].id, IntValue(expenses[i].id.v)}

UpdatedBy(e, payload) ==
    [e EXCEPT
       !.amount = IF "amount" \in DOMAIN payload THEN payload.amount ELSE @,
       !.category = IF "category" \in DOMAIN payload THEN payload.category ELSE @,
       !.vendor = IF "vendor" \in DOMAIN payload THEN payload.vendor ELSE @,
       !.currency_id = IF "currency" \in DOMAIN payload THEN payload.currency ELSE @]

OwnersKept ==
    \A i \in 1..Len(expenses), j \in 1..Len(expenses') :
       expenses'[j].id = expenses[i].id => expenses'[j].user_id = expenses[i].user_id

C11_UpdateChangesOnlyPayloadFields ==
    [][/\ OwnersKept
       /\ resp'.route = "update_expense" =>
            \A tok \in RouteTokens : \A i \in 1..Len(expenses) :
               OwnersExpense(tok, i) =>
                  \A id \in IdsOf(i), payload \in UpdateBodies :
                     UpdateExpense(tok, {id}, {payload}) =>
                        /\ resp'.status = 200
                        /\ Len(expenses') = Len(expenses)
                        /\ expenses'[i] = UpdatedBy(expenses[i], payload)
                        /\ \A j \in 1..Len(expenses) :
                              j # i => expenses'[j] = expenses[j]
      ]_vars

-----------------------------------------------------------------------------
(* C12: a create by an authenticated user U with a valid body stores      *)
(* exactly one new expense owned by U and returns it with an id no stored  *)
(* expense has; U's get of a stored expense of theirs returns the record;  *)
(* U's delete of it removes exactly that expense; get, update and delete   *)
(* of an id that is not stored each answer 404 "Expense not found".        *)

ValidExpenseBodies == {b \in ExpenseBodies : b.amount > 0}

StoredIds == {expenses[i].id : i \in 1..Len(expenses)}

AbsentIds == {UnknownUuid, IntValue(0)} \ StoredIds

C12_OwnerLifecycle ==
    [][\A tok \in RouteTokens :
          ~AuthMustFail(tok) =>
            /\ (resp'.route = "create_expense"
                  /\ CreateExpense(tok, ValidExpenseBodies)) =>
                  /\ resp'.status = 201
                  /\ Len(expenses') = Len(expenses) + 1
                  /\ SubSeq(expenses', 1, Len(expenses)) = expenses
                  /\ resp'.body = expenses'[Len(expenses')]
                  /\ expenses'[Len(expenses')].id \notin StoredIds
                  /\ \E u \in Referenced(tok) :
                        expenses'[Len(expenses')].user_id = Str(u.user_id)
            /\ \A i \in 1..Len(expenses) :
                  OwnersExpense(tok, i) =>
                     \A id \in IdsOf(i) :
                        /\ GetExpense(tok, {id}) =>
                              /\ resp'.status = 200
                              /\ resp'.body = expenses[i]
                              /\ UNCHANGED db
                        /\ DeleteExpense(tok, {id}) =>
                              /\ resp'.status = 204
                              /\ expenses' = RemoveAt(expenses, i)
            /\ \A id \in AbsentIds :
                  /\ GetExpense(tok, {id}) =>
                        resp' = NotFoundResponse("get_expense") /\ UNCHANGED db
                  /\ DeleteExpense(tok, {id}) =>
                        resp' = NotFoundResponse("delete_expense") /\ UNCHANGED db
                  /\ \A payload \in UpdateBodies :
                        UpdateExpense(tok, {id}, {payload}) =>
                           resp' = NotFoundResponse("update_expense") /\ UNCHANGED db
      ]_vars

-----------------------------------------------------------------------------
(* C13: creating a currency whose code exists is answered 409 and leaves  *)
(* the stored record as it was; otherwise exactly one record is inserted;  *)
(* and when two requests for one code both pass the existence check, one   *)
(* record with that code exists afterwards and the request that commits    *)
(* second is answered 409, not with a server error.                        *)

ConflictResponse(currency_id) ==
    Response("create_currency", 409,
             "Currency " \o currency_id \o " already exists", None)

UniqueCodes(tbl) ==
    \A i, j \in 1..Len(tbl) : tbl[i].currency_id = tbl[j].currency_id => i = j

C13_DuplicateCurrencyIsConflict ==
    [][/\ UniqueCodes(currencies')
       /\ \A p \in Procs, tok \in tokens, currency_data \in CurrencyBodies :
             (CurrencyExists(currencies, currency_data.currency_id)
                /\ resp'.route = "create_currency"
                /\ CreateCurrencyBegin(p, tok, currency_data)) =>
                /\ resp' = ConflictResponse(currency_data.currency_id)
                /\ UNCHANGED <<currencies, pending>>
       /\ \A p \in Procs :
             CreateCurrencyCommit(p) =>
                IF CurrencyExists(currencies, pending[p].data.currency_id)
                THEN /\ resp' = ConflictResponse(pending[p].data.currency_id)
                     /\ UNCHANGED currencies
                ELSE /\ currencies' = Append(currencies, pending[p].data)
                     /\ resp'.status = 201
      ]_vars

-----------------------------------------------------------------------------
(* C18: every stored currency has a code of exactly 3 characters and no   *)
(* two stored currencies share a code; a creation request whose code is    *)
(* not 3 characters long stores nothing; a stored currency is never        *)
(* modified or removed.                                                    *)

CodeLength == 3

C18_CurrencyCodesAreThreeLetters ==
    [][/\ \A i \in 1..Len(currencies') :
             Len(currencies'[i].currency_id) = CodeLength
       /\ UniqueCodes(currencies')
       /\ Len(currencies') >= Len(currencies)
       /\ SubSeq(currencies', 1, Len(currencies)) = currencies
       /\ \A p \in Procs :
             (CreateCurrencyCommit(p)
                /\ Len(pending[p].data.currency_id) # CodeLength) =>
                UNCHANGED currencies
      ]_vars

-----------------------------------------------------------------------------
(* Vocabulary of the prototype's properties *)

KnownUsers == DOMAIN EXPENSES_BY_USER

UnknownUsers == ProtoUsers \ KnownUsers

(* The bodies that pass the schema, as the handlers receive them *)
ValidData == {ExpenseBase(body).val : body \in {b \in ProtoBodies : ExpenseBase(b).ok}}

StoreUnchanged == EXPENSES_BY_USER' = EXPENSES_BY_USER

AllStoredIds ==
    UNION {{EXPENSES_BY_USER[u][i].id : i \in 1..Len(EXPENSES_BY_USER[u])} :
             u \in KnownUsers}

-----------------------------------------------------------------------------
(* C14: in the prototype, get-expenses, add, update and delete addressed  *)
(* to a user id that is not a key of the store are each answered 404 and   *)
(* leave the store as it was; no step changes the set of user ids.         *)

UnknownUserAnswer ==
    /\ resp'.status = 404
    /\ StoreUnchanged

-----------------------------------------------------------------------------
(* C15: in the prototype, an add for an existing user puts exactly one    *)
(* expense with a fresh id and the normalized submitted values at the end  *)
(* of that user's list and leaves the earlier expenses and every other     *)
(* user's list as they were; get-expenses without a category returns the   *)
(* whole list in insertion order; a successful delete shortens the list by *)
(* exactly one.                                                            *)

OthersUnchanged(user_id) ==
    \A other \in KnownUsers \ {user_id} :
       EXPENSES_BY_USER'[other] = EXPENSES_BY_USER[other]

C15_AddAppendsOne ==
    [][\A user_id \in ProtoUsers \cap KnownUsers :
          /\ resp'.route = "add_expense" =>
               \A body \in ProtoBodies :
                  (ExpenseBase(body).ok /\ AddExpense(body, user_id)) =>
                     LET old == EXPENSES_BY_USER[user_id]
                         new == EXPENSES_BY_USER'[user_id]
                         added == new[Len(new)]
                     IN  /\ resp'.status = 201
                         /\ Len(new) = Len(old) + 1
                         /\ SubSeq(new, 1, Len(old)) = old
                         /\ added.id \notin AllStoredIds
                         /\ added.amount = body.amount
                         /\ added.category = Lower(Strip(body.category))
                         /\ added.currency = body.currency
                         /\ added.vendor = Strip(body.vendor)
                         /\ resp'.body = added
                         /\ OthersUnchanged(user_id)
          /\ get_user_expenses(user_id, None) =>
               /\ resp'.status = 200
               /\ resp'.body = EXPENSES_BY_USER[user_id]
               /\ StoreUnchanged
          /\ resp'.route = "main_delete_expense" =>
               \A expense_id \in ProtoIds :
                  (main_delete_expense(user_id, expense_id)
                     /\ resp'.status = 204) =>
                     /\ Len(EXPENSES_BY_USER'[user_id])
                           = Len(EXPENSES_BY_USER[user_id]) - 1
                     /\ OthersUnchanged(user_id)
      ]_vars

C15_Witness ==
    /\ resp.route = "add_expense" /\ resp.status = 201
    /\ Len(EXPENSES_BY_USER["123"]) = 5
    /\ EXPENSES_BY_USER["123"][5].category = <<"f", "u", "n">>
    /\ EXPENSES_BY_USER["123"][5].vendor = <<"P", "v", "r">>
    /\ EXPENSES_BY_USER["123"][1].id # SeedStore["123"][1].id

-----------------------------------------------------------------------------
(* C16: in the prototype, get-expenses with a category filter returns     *)
(* exactly the user's expenses whose stored category equals the trimmed    *)
(* lowercase filter, in their original order, and leaves the store as it   *)
(* was.                                                                    *)

Matching(list, category) ==
    {i \in 1..Len(list) : list[i].category = Lower(Strip(category))}

(* the k-th smallest member of a set of indices *)
Kth(indices, k) ==
    CHOOSE i \in indices : Cardinality({j \in indices : j <= i}) = k

C16_FilterIsExact ==
    [][resp'.route = "get_user_expenses" =>
          \A user_id \in ProtoUsers \cap KnownUsers :
             \A category \in CategoryFilters \ {None} :
                get_user_expenses(user_id, category) =>
                   LET list == EXPENSES_BY_USER[user_id]
                       matches == Matching(list, category)
                   IN  /\ resp'.status = 200
                       /\ Len(resp'.body) = Cardinality(matches)
                       /\ \A k \in 1..Len(resp'.body) :
                             resp'.body[k] = list[Kth(matches, k)]
                       /\ StoreUnchanged
      ]_vars

C16_Witness ==
    /\ resp.route = "get_user_expenses" /\ resp.status = 200
    /\ Len(resp.body) = 1
    /\ resp.body[1].category = <<"f", "u", "n">>
    /\ Len(EXPENSES_BY_USER["123"]) > 1

-----------------------------------------------------------------------------
(* C19: login does not look at the active flag: an inactive user with the *)
(* right credentials gets last_login_at set and a token for that account,  *)
(* and every protected route answers that token 403 "User account is       *)
(* inactive" and changes nothing.                                          *)

InactiveRows == {u \in UserRows : ~u.is_active}

TokensOfInactive == {tok \in tokens : UserInactive(tok) /\ ~TokenInvalid(tok)}

C19_InactiveUserLogsInButIsRejected ==
    [][/\ resp'.route = "login" =>
            \A u \in InactiveRows :
               Login(u.email, "longenough") =>
                  /\ resp'.status = 200
                  /\ resp'.body.access_token \in tokens'
                  /\ Subject(resp'.body.access_token) = Str(u.user_id)
                  /\ users'[u.user_id].last_login_at = now
                  /\ ~users'[u.user_id].is_active
       /\ \A tok \in TokensOfInactive :
             ProtectedRequest(tok) =>
                /\ resp'.status = 403
                /\ resp'.detail = "User account is inactive"
                /\ UNCHANGED <<users, expenses, currencies, tokens, pending>>
      ]_vars

C19_Witness ==
    /\ resp.route = "update_expense" /\ resp.status = 403
    /\ TokensOfInactive # {}
    /\ \E u \in InactiveRows : u.last_login_at = now
    /\ Len(expenses) = 1

-----------------------------------------------------------------------------
(* C17: each request gets exactly one session, which is closed after the  *)
(* request on every way out of the handler (return, HTTP error, unhandled  *)
(* exception); no session is closed twice or used after its close, and     *)
(* when no request is in flight no session is open.                        *)

OpenSessions == {s \in 1..Len(sessions) : sessions[s].state = "open"}

HeldSessions == {requests[p].session : p \in InFlight}

SessionSafety ==
    /\ \A s \in 1..Len(sessions) :
          /\ sessions[s].closes <= 1
          /\ ~sessions[s].used_after_close
          /\ sessions[s].state = "closed" <=> sessions[s].closes = 1
    /\ \A p \in InFlight, q \in InFlight :
          requests[p].session = requests[q].session => p = q
    /\ OpenSessions = HeldSessions
    /\ InFlight = {} => OpenSessions = {}

(* a request keeps the session it got, and only a request that starts is  *)
(* given a new one                                                         *)
OneSessionPerRequest ==
    /\ \A p \in Procs :
          (requests[p].phase # "idle" /\ requests'[p].phase # "idle") =>
             requests'[p].session = requests[p].session
    /\ Len(sessions') - Len(sessions)
          = Cardinality({p \in Procs : /\ requests[p].phase = "idle"
                                       /\ requests'[p].phase # "idle"})

C17_SessionClosedOncePerRequest ==
    /\ []SessionSafety
    /\ [][OneSessionPerRequest]_vars
    /\ \A s \in 1..MaxSessions :
          (s \in OpenSessions) ~> (s <= Len(sessions) /\ sessions[s].state = "closed")

C17_Witness ==
    /\ \E p \in Procs :
          /\ requests[p].phase = "exiting"
          /\ requests[p].outcome = "Exception"
          /\ sessions[requests[p].session].state = "open"
    /\ \E s \in 1..Len(sessions) :
          /\ sessions[s].state = "closed"
          /\ sessions[s].used
    /\ \E p \in Procs : requests[p].phase = "handling"

====
